---- MODULE Spec2Model ----
(***************************************************************************)
(* pysb/bng.py: the BioNetGen adapter of PySB.                             *)
(*                                                                         *)
(*   generate_equations  parses the engine's .net text into model.species, *)
(*                       model.reactions, model.reactions_bidirectional,   *)
(*                       model.odes and the observables' coefficient lists *)
(*   generate_network    writes the .bngl file, runs the engine, reads the *)
(*   run_ssa             .net/.gdat file and removes the temporary files   *)
(*                                                                         *)
(* A line of the .net text is modelled by its whitespace-separated fields  *)
(* (the result of line.strip().split()), numerals read as numbers.  A      *)
(* symbolic rate (a sympy product of symbols) is a monomial, an ODE right  *)
(* hand side is a polynomial with integer coefficients.                    *)
(***************************************************************************)
EXTENDS Integers, Sequences, FiniteSets, TLC

VARIABLES
    \* the model object
    rules,                    \* model.rules: names of the model's rules
    initial_conditions,       \* model.initial_conditions
    species,                  \* model.species
    odes,                     \* model.odes
    reactions,                \* model.reactions
    reactions_bidirectional,  \* model.reactions_bidirectional
    observables,              \* model.observables: name -> coefficients, species
    \* the external engine
    returncode,               \* the exit status of the engine run on this model
    net,                      \* the .net text the engine writes for this model
    engineCalls,              \* generate_network invocations that reached the engine
    \* the generate_equations call in progress
    pc,                       \* position inside generate_equations
    pos,                      \* lines consumed from the iterator `lines`
    line,                     \* the last item lines.next() yielded
    reaction_cache,           \* the local dict reaction_cache: key -> record
    calls,                    \* generate_equations calls made so far
    ret,                      \* how the last call ended
    err,                      \* the exception it raised
    \* the generate_network / run_ssa call in progress
    nw,                       \* its position, arguments and the files on disk
    \* the engine path
    _bng_path,                \* the module global _bng_path
    os,                       \* os.environ and the files the path checks look at
    pathCall                  \* the last set_bng_path / _get_bng_path call

vars == <<rules, initial_conditions, species, odes, reactions,
          reactions_bidirectional, observables, returncode, net, engineCalls,
          pc, pos, line, reaction_cache, calls, ret, err, nw,
          _bng_path, os, pathCall>>

modelVars == <<rules, initial_conditions, returncode>>
outVars == <<species, odes, reactions, reactions_bidirectional, observables>>
eqVars == <<net, engineCalls, pc, pos, line, reaction_cache, calls, ret, err>>
pathVars == <<_bng_path, os, pathCall>>

----------------------------------------------------------------------------
(* Bounds of the exploration *)

MaxSpecies == 2      \* species lines in an engine output
MaxLines == 2        \* reaction lines in an engine output
MaxGroups == 2       \* group lines in an engine output
MaxCalls == 2        \* generate_equations calls on one model
MaxPathCalls == 3    \* set_bng_path and _get_bng_path calls in one process

----------------------------------------------------------------------------
(* Helpers *)

Range(s) == {s[i] : i \in DOMAIN s}

RECURSIVE SeqsUpTo(_, _)
SeqsUpTo(S, n) ==
    IF n = 0 THEN {<<>>}
    ELSE LET shorter == SeqsUpTo(S, n - 1)
         IN  shorter \cup {Append(s, x) : s \in {t \in shorter : Len(t) = n - 1}, x \in S}

----------------------------------------------------------------------------
(* Symbolic rates: sympy.Mul of symbols, and sums of such products *)

\* the multiset of the elements of a sequence
BagOf(s) == [x \in Range(s) |-> Cardinality({i \in DOMAIN s : s[i] = x})]

\* sympy.Mul(*[sympy.Symbol(t) for t in r_names + rate]): the product of the
\* population symbols __s<r> of the reactants and of the rate tokens
Monomial(reactants, rate) == [s |-> BagOf(reactants), k |-> BagOf(rate)]

\* sympy.numbers.Zero()
Zero == [m \in {} |-> 0]

Coef(p, m) == IF m \in DOMAIN p THEN p[m] ELSE 0

PolyOf(m) == [x \in {m} |-> 1]

PolyAdd(p, q) ==
    LET D == {m \in (DOMAIN p) \cup (DOMAIN q) : Coef(p, m) + Coef(q, m) # 0}
    IN  [m \in D |-> Coef(p, m) + Coef(q, m)]

PolyNeg(p) == [m \in DOMAIN p |-> 0 - p[m]]

PolySub(p, q) == PolyAdd(p, PolyNeg(q))

----------------------------------------------------------------------------
(* The lines of a .net file *)

Marker(text) == [kind |-> text]
StopIteration == [kind |-> "<StopIteration>"]

\* "<index> <complex> <population>"; the complex is given by the names of its
\* monomers (complex_string.split('.') with the site lists left out)
SpeciesLine(i, c) == [kind |-> "species", index |-> i, pattern |-> c]

\* "<number> <reactants-csv> <products-csv> <rate> #<rule>[(reverse)]": the
\* index lists after split(','), the rate after rsplit('*'), the tag as the
\* groups of the regular expression (a second group only when it matched)
ReactionLine(rs, ps, k, tag) ==
    [kind |-> "reaction", reactants |-> rs, products |-> ps, rate |-> k, tag |-> tag]

\* "<number> <observable>" or "<number> <observable> <term-csv>": the fields
\* of line.strip().split(); a term is <<species>> or <<coefficient, species>>
GroupLine(values) == [kind |-> "group", values |-> values]

\* model.monomers, model.observables and the rules of a complete model
Monomers == {"A", "B"}
ObservableNames == {"Obs1", "Obs2"}
RuleNames == {"r1", "r2"}

----------------------------------------------------------------------------
(* _parse_species: append the complex pattern of a species line *)

_parse_species(sp, l) ==
    IF l.kind # "species"
        THEN [err |-> "ValueError", species |-> sp]      \* the unpacking of split()
    ELSE IF \E i \in DOMAIN l.pattern : l.pattern[i] \notin Monomers
        THEN [err |-> "KeyError", species |-> sp]        \* model.monomers[monomer_name]
    ELSE [err |-> "", species |-> Append(sp, l.pattern)]

----------------------------------------------------------------------------
(* _parse_group: append the (coefficient, species) pairs of a group line *)

\* a faulty variant: the coefficient is made zero-based like the species index
GroupTerm_CoefficientZeroBased(obs, product) ==
    LET terms == IF Len(product) = 1 THEN <<1>> \o product ELSE product
    IN  [coefficients |-> Append(obs.coefficients, terms[1] - 1),
         species |-> Append(obs.species, terms[2] - 1)]

\* lines 411-418: the loop body for one term of the list
GroupTerm(obs, product) ==
    LET terms == IF Len(product) = 1 THEN <<1>> \o product ELSE product
    IN  [coefficients |-> Append(obs.coefficients, terms[1]),
         species |-> Append(obs.species, terms[2] - 1)]

RECURSIVE GroupTerms(_, _)
GroupTerms(obs, products) ==
    IF products = <<>> THEN obs
    ELSE GroupTerms(GroupTerm(obs, Head(products)), Tail(products))

_parse_group(obsv, l) ==
    IF l.kind # "group"
        THEN [err |-> "IndexError", observables |-> obsv]   \* values[1]
    ELSE IF l.values[2] \notin DOMAIN obsv
        THEN [err |-> "KeyError", observables |-> obsv]     \* model.observables[...]
    ELSE IF Len(l.values) = 3
        THEN [err |-> "",
              observables |-> [obsv EXCEPT ![l.values[2]] = GroupTerms(@, l.values[3])]]
    ELSE [err |-> "", observables |-> obsv]

----------------------------------------------------------------------------
(* The body of the reactions loop of generate_equations *)

\* tuple(int(r) - 1 for r in <csv>.split(',')): one-based to zero-based
ZeroBased(idxs) == [i \in DOMAIN idxs |-> idxs[i] - 1]

\* the two groups of re.match(r'#(\w+)(?:\((reverse)\))?', rule)
rule_name(tag) == tag[1]
is_reverse(tag) == Len(tag) = 2

\* Python list indexing: the 1-based position list[i] denotes in a list of
\* length n, 0 when it raises IndexError
PyIndex(n, i) ==
    IF i >= 0 /\ i < n THEN i + 1
    ELSE IF i < 0 /\ i >= 0 - n THEN n + i + 1
    ELSE 0

\* "for p in idxs: odes[p] += delta", stopping at the first IndexError
RECURSIVE OdeLoop(_, _, _)
OdeLoop(o, idxs, delta) ==
    IF idxs = <<>> THEN [err |-> "", odes |-> o]
    ELSE LET at == PyIndex(Len(o), Head(idxs))
         IN  IF at = 0 THEN [err |-> "IndexError", odes |-> o]
             ELSE OdeLoop([o EXCEPT ![at] = PolyAdd(@, delta)], Tail(idxs), delta)

\* lines 338-341: products gain the rate, reactants lose it
OdeUpdate(o, reaction) ==
    LET gain == OdeLoop(o, reaction.products, reaction.rate)
    IN  IF gain.err # "" THEN gain
        ELSE OdeLoop(gain.odes, reaction.reactants, PolyNeg(reaction.rate))

\* lines 325-337: the merge of a reaction into reactions_bidirectional; the
\* cache holds, for a key, the position of the record it refers to
MergeKey(reaction) == <<reaction.rule, reaction.reactants, reaction.products>>
MergeKeyReverse(reaction) == <<reaction.rule, reaction.products, reaction.reactants>>

Merge(bd, cache, reaction) ==
    LET key == MergeKey(reaction)
        key_reverse == MergeKeyReverse(reaction)
    IN  IF key_reverse \notin DOMAIN cache
        THEN LET reaction_bd == [reactants |-> reaction.reactants,
                                 products |-> reaction.products,
                                 rate |-> reaction.rate,
                                 rule |-> reaction.rule,
                                 reverse |-> reaction.reverse,
                                 reversible |-> FALSE]
             IN  [bd |-> Append(bd, reaction_bd),
                  cache |-> [k \in (DOMAIN cache) \cup {key} |->
                                IF k = key THEN Len(bd) + 1 ELSE cache[k]]]
        ELSE [bd |-> [bd EXCEPT ![cache[key_reverse]] =
                         [@ EXCEPT !.reversible = TRUE,
                                   !.rate = PolySub(@, reaction.rate)]],
              cache |-> cache]

\* a faulty variant: the rule is looked up after the reaction has been
\* appended to model.reactions
ParseReaction_LookupAfterAppend(rls, rx, bd, cache, o, l) ==
    LET same == [err |-> "", reactions |-> rx, bd |-> bd, cache |-> cache, odes |-> o]
    IN  IF l.kind # "reaction"
            THEN [same EXCEPT !.err = "ValueError"]
        ELSE LET reactants == ZeroBased(l.reactants)
                 reaction == [reactants |-> reactants,
                              products |-> ZeroBased(l.products),
                              rate |-> PolyOf(Monomial(reactants, l.rate)),
                              rule |-> rule_name(l.tag),
                              reverse |-> is_reverse(l.tag)]
                 merged == Merge(bd, cache, reaction)
                 updated == OdeUpdate(o, reaction)
             IN  IF rule_name(l.tag) \notin rls
                 THEN [same EXCEPT !.err = "KeyError", !.reactions = Append(rx, reaction)]
                 ELSE [err |-> updated.err,
                       reactions |-> Append(rx, reaction),
                       bd |-> merged.bd,
                       cache |-> merged.cache,
                       odes |-> updated.odes]

\* lines 306-341: one reaction line.  The fields of the result are the new
\* values of model.reactions, model.reactions_bidirectional, reaction_cache
\* and model.odes, and the exception raised ("" for none)
ParseReaction(rls, rx, bd, cache, o, l) ==
    LET same == [err |-> "", reactions |-> rx, bd |-> bd, cache |-> cache, odes |-> o]
    IN  IF l.kind # "reaction"
            THEN [same EXCEPT !.err = "ValueError"]          \* the unpacking of split()
        ELSE IF rule_name(l.tag) \notin rls
            THEN [same EXCEPT !.err = "KeyError"]            \* model.rules[rule_name]
        ELSE LET reactants == ZeroBased(l.reactants)
                 reaction == [reactants |-> reactants,
                              products |-> ZeroBased(l.products),
                              rate |-> PolyOf(Monomial(reactants, l.rate)),
                              rule |-> rule_name(l.tag),
                              reverse |-> is_reverse(l.tag)]
                 merged == Merge(bd, cache, reaction)
                 updated == OdeUpdate(o, reaction)
             IN  [err |-> updated.err,
                  reactions |-> Append(rx, reaction),
                  bd |-> merged.bd,
                  cache |-> merged.cache,
                  odes |-> updated.odes]

\* a faulty variant: the record is turned round but its rate keeps its sign
FixUpOne_RateNotNegated(r) ==
    IF r.reverse
    THEN [reactants |-> r.products, products |-> r.reactants,
          rate |-> r.rate, rule |-> r.rule, reversible |-> r.reversible]
    ELSE [reactants |-> r.reactants, products |-> r.products,
          rate |-> r.rate, rule |-> r.rule, reversible |-> r.reversible]

\* lines 343-348: reactions whose reverse version was seen first are turned
\* round, and the 'reverse' entry of every record is deleted
FixUpOne(r) ==
    IF r.reverse
    THEN [reactants |-> r.products, products |-> r.reactants,
          rate |-> PolyNeg(r.rate), rule |-> r.rule, reversible |-> r.reversible]
    ELSE [reactants |-> r.reactants, products |-> r.products,
          rate |-> r.rate, rule |-> r.rule, reversible |-> r.reversible]

\* the loop stops with KeyError at a record that has no 'reverse' entry
FixUpStop(bd) ==
    LET missing == {i \in DOMAIN bd : "reverse" \notin DOMAIN bd[i]}
    IN  IF missing = {} THEN Len(bd) + 1
        ELSE CHOOSE i \in missing : \A j \in missing : i <= j

FixUp(bd) == [i \in DOMAIN bd |-> IF i < FixUpStop(bd) THEN FixUpOne(bd[i]) ELSE bd[i]]

----------------------------------------------------------------------------
(* The engine outputs explored *)

SpeciesLines ==
    {SpeciesLine(i, c) : i \in 1..(MaxSpecies + 1), c \in {<<"A">>, <<"A", "B">>, <<"C">>}}

\* wire-format reactant and product lists; 0 is the engine's null species
Stoichiometries ==
    { <<<<1>>, <<2>>>>, <<<<2>>, <<1>>>>, <<<<1, 2>>, <<2>>>>, <<<<2>>, <<2, 1>>>>,
      <<<<0>>, <<1>>>>, <<<<1>>, <<1>>>> }

ReactionLines ==
    {ReactionLine(st[1], st[2], <<"kf">>, <<"r1">>) : st \in Stoichiometries}
    \cup {ReactionLine(st[1], st[2], <<"kr">>, <<"r1", "reverse">>) : st \in Stoichiometries}
    \cup {ReactionLine(<<1>>, <<2>>, <<"kf">>, <<"rX">>)}

GroupTermLists == {<<<<4>>>>, <<<<2, 1>>>>, <<<<2, 1>>, <<4>>>>, <<<<1>>, <<3, 2>>>>}

GroupLines ==
    {GroupLine(<<"1", "Obs1">>), GroupLine(<<"2", "Obs2", <<<<1>>>>>>),
     GroupLine(<<"3", "ObsX", <<<<1>>>>>>)}
    \cup {GroupLine(<<"3", "Obs1", t>>) : t \in GroupTermLists}

\* a species section with consecutive indices
Consecutive(n) == [i \in 1..n |-> SpeciesLine(i, <<"A">>)]

File(sp, rx, gp) ==
    <<Marker("begin parameters"), Marker("begin species")>> \o sp
    \o <<Marker("end species"), Marker("begin reactions")>> \o rx
    \o <<Marker("end reactions"), Marker("begin groups")>> \o gp
    \o <<Marker("end groups")>>

Cut(f, k) == SubSeq(f, 1, k)

SpeciesFocus ==
    UNION {{File(sp, <<>>, <<>>), Cut(File(sp, <<>>, <<>>), 2 + Len(sp))} :
        sp \in SeqsUpTo(SpeciesLines, MaxSpecies)}

ReactionFocus ==
    UNION {{File(Consecutive(n), rx, <<>>),
            Cut(File(Consecutive(n), rx, <<>>), 4 + n + Len(rx))} :
        n \in {0, MaxSpecies}, rx \in SeqsUpTo(ReactionLines, MaxLines)}

GroupFocus ==
    {File(Consecutive(MaxSpecies), <<>>, gp) : gp \in SeqsUpTo(GroupLines, MaxGroups)}

Truncated ==
    LET f == File(Consecutive(1),
                  <<ReactionLine(<<1>>, <<1>>, <<"kf">>, <<"r1">>)>>,
                  <<GroupLine(<<"1", "Obs1", <<<<1>>>>>>)>>)
    IN  {Cut(f, k) : k \in 0..Len(f)}

EngineOutputs == SpeciesFocus \cup ReactionFocus \cup GroupFocus \cup Truncated

----------------------------------------------------------------------------
(* generate_equations *)

EmptyCache == [k \in {} |-> 0]
NoObservable == [coefficients |-> <<>>, species |-> <<>>]

\* no generate_network / run_ssa call yet: an empty disk, the caller's directory
NwIdle ==
    [pc |-> "idle", fn |-> "", cleanup |-> TRUE, cwd |-> "working_dir",
     files |-> {}, created |-> {}, started |-> 0, err |-> ""]

\* the module global before any path call (line 14)
None == [dir |-> "", subdir |-> ""]

\* os.path.join(dir, subdir, 'BNG2.pl'); an empty subdir adds nothing, so
\* os.path.join(dir, 'BNG2.pl') is the same path
ScriptPath(dir, subdir) == [dir |-> dir, subdir |-> subdir]

path_var == "BNGPATH"
dist_dirs == <<"/usr/local/share/BioNetGen", "c:/Program Files/BioNetGen">>
script_subdirs == <<"", "Perl2">>

\* os.access(path, os.F_OK), os.path.isfile(path), os.access(path, os.X_OK):
\* a directory exists, is no file, and is searchable
F_OK(files, path) == files[path] # "missing"
isfile(files, path) == files[path] \in {"file", "executable"}
X_OK(files, path) == files[path] \in {"directory", "executable"}

\* lines 16-24: the global and the exception of set_bng_path(dir); the global
\* is assigned before the checks
set_bng_path(files, dir) ==
    LET path == ScriptPath(dir, "")
    IN  [_bng_path |-> path,
         err |-> IF ~F_OK(files, path) \/ ~isfile(files, path)
                 THEN "Could not find BNG2.pl"
                 ELSE IF ~X_OK(files, path)
                 THEN "BNG2.pl is not executable"
                 ELSE ""]

\* lines 50-60: the script found in the directory or one of its
\* script_subdirs, None for the result False
check_dist_dir(files, dir) ==
    LET found == {i \in DOMAIN script_subdirs :
                    F_OK(files, ScriptPath(dir, script_subdirs[i]))}
    IN  IF found = {} THEN None
        ELSE ScriptPath(dir, script_subdirs[CHOOSE i \in found : \A j \in found : i <= j])

\* lines 62-76: the search of the environment variable's directory, or of
\* the dist_dirs in order when the variable is not set
Resolve(o) ==
    IF path_var \in DOMAIN o.environ
    THEN LET script_path == check_dist_dir(o.files, o.environ[path_var])
         IN  [script_path |-> script_path,
              err |-> IF script_path = None
                      THEN "Environment variable BNGPATH is set but BNG2.pl could not be found there"
                      ELSE ""]
    ELSE LET hit == {i \in DOMAIN dist_dirs : check_dist_dir(o.files, dist_dirs[i]) # None}
         IN  IF hit = {}
             THEN [script_path |-> None,
                   err |-> "Could not find BioNetGen installed in one of the following locations"]
             ELSE [script_path |-> check_dist_dir(o.files,
                                      dist_dirs[CHOOSE i \in hit : \A j \in hit : i <= j]),
                   err |-> ""]

\* a faulty variant: the global is not looked at
_get_bng_path_CacheNotUsed(cache, o) ==
    LET r == Resolve(o)
    IN  [ret |-> r.script_path, err |-> r.err, consulted |-> TRUE,
         _bng_path |-> IF r.err = "" THEN r.script_path ELSE cache]

\* lines 26-79: the value _get_bng_path() returns, the exception it raises,
\* whether it consulted the environment and the directories, and the global
\* it leaves
_get_bng_path(cache, o) ==
    IF cache # None
    THEN [ret |-> cache, err |-> "", consulted |-> FALSE, _bng_path |-> cache]
    ELSE LET r == Resolve(o)
         IN  [ret |-> r.script_path, err |-> r.err, consulted |-> TRUE,
              _bng_path |-> IF r.err = "" THEN r.script_path ELSE cache]

\* no path call yet
PathIdle ==
    [calls |-> 0, op |-> "", dir |-> "", ret |-> None, err |-> "",
     consulted |-> FALSE, resolved |-> 0]

\* the directories a caller or the environment may name
UserDir == "/home/user/BioNetGen"
Dirs == {UserDir} \cup Range(dist_dirs)
Paths == {ScriptPath(d, script_subdirs[i]) : d \in Dirs, i \in DOMAIN script_subdirs}

\* what is found at each path: in the user's directory anything, elsewhere
\* the engine script or nothing
FileSystems ==
    {f \in [Paths -> {"missing", "directory", "file", "executable"}] :
        /\ \A p \in Paths : (p.subdir # "" \/ p.dir # UserDir)
                                => f[p] \in {"missing", "executable"}
        /\ f[ScriptPath(dist_dirs[2], "Perl2")] = "missing"}

\* os.environ: without the variable, or with it naming one of the directories
Environments == {<<>>} \cup {[v \in {path_var} |-> d] : d \in Dirs}

\* a machine without the engine
NoEngine == [environ |-> <<>>, files |-> [p \in Paths |-> "missing"]]

Init ==
    /\ rules \in {{}, RuleNames}
    /\ initial_conditions \in {0, 1}
    /\ returncode \in {0, 1}
    /\ net \in IF rules = {} \/ initial_conditions = 0 \/ returncode # 0
               THEN {<<>>} ELSE EngineOutputs
    /\ species = <<>>
    /\ odes = <<>>
    /\ reactions = <<>>
    /\ reactions_bidirectional = <<>>
    /\ observables = [n \in ObservableNames |-> NoObservable]
    /\ engineCalls = 0
    /\ pc = "idle"
    /\ pos = 0
    /\ line = StopIteration
    /\ reaction_cache = EmptyCache
    /\ calls = 0
    /\ ret = "none"
    /\ err = ""
    /\ nw = NwIdle
    /\ _bng_path = None
    /\ os = NoEngine
    /\ pathCall = PathIdle

\* a faulty variant: the rules are not checked
Precondition_RulesNotChecked(ics, rls) ==
    IF ics = 0 THEN "NoInitialConditionsError" ELSE ""

\* lines 232-235 of generate_network: the exception its checks raise
Precondition(ics, rls) ==
    IF ics = 0 THEN "NoInitialConditionsError"
    ELSE IF rls = {} THEN "NoRulesError"
    ELSE ""

\* the call ends: r is "returned" or "raised"; the locals are gone
Finish(r, e) ==
    /\ pc' = "idle"
    /\ ret' = r
    /\ err' = e
    /\ pos' = 0
    /\ reaction_cache' = EmptyCache

\* the first line after pos that contains the text, 0 when there is none
FirstAfter(text) ==
    LET at == {k \in (pos + 1)..Len(net) : net[k].kind = text}
    IN  IF at = {} THEN 0 ELSE CHOOSE k \in at : \A j \in at : k <= j

NextLine == IF pos < Len(net) THEN net[pos + 1] ELSE StopIteration

\* lines 287-288: the model has odes already
CallNoop ==
    /\ pc = "idle" /\ calls < MaxCalls
    /\ odes # <<>>
    /\ calls' = calls + 1
    /\ ret' = "returned" /\ err' = ""
    /\ UNCHANGED <<modelVars, outVars, net, engineCalls, pc, pos, line, reaction_cache, nw, pathVars>>

\* line 289: generate_network raises before it runs the engine
CallRejected ==
    /\ pc = "idle" /\ calls < MaxCalls
    /\ odes = <<>>
    /\ Precondition(initial_conditions, rules) # ""
    /\ calls' = calls + 1
    /\ ret' = "raised" /\ err' = Precondition(initial_conditions, rules)
    /\ UNCHANGED <<modelVars, outVars, net, engineCalls, pc, pos, line, reaction_cache, nw, pathVars>>

\* line 289: the engine exits with an error (line 251)
CallEngineError ==
    /\ pc = "idle" /\ calls < MaxCalls
    /\ odes = <<>>
    /\ Precondition(initial_conditions, rules) = ""
    /\ returncode # 0
    /\ calls' = calls + 1
    /\ engineCalls' = engineCalls + 1
    /\ ret' = "raised" /\ err' = "GenerateNetworkError"
    /\ UNCHANGED <<modelVars, outVars, net, pc, pos, line, reaction_cache, nw, pathVars>>

\* line 289: the engine's output is split into lines
CallStart ==
    /\ pc = "idle" /\ calls < MaxCalls
    /\ odes = <<>>
    /\ Precondition(initial_conditions, rules) = ""
    /\ returncode = 0
    /\ calls' = calls + 1
    /\ engineCalls' = engineCalls + 1
    /\ pc' = "seek species"
    /\ pos' = 0
    /\ ret' = "none" /\ err' = ""
    /\ UNCHANGED <<modelVars, outVars, net, line, reaction_cache, nw, pathVars>>

\* lines 291-293
BeginSpecies ==
    /\ pc = "seek species"
    /\ FirstAfter("begin species") # 0
    /\ pos' = FirstAfter("begin species")
    /\ line' = net[pos']
    /\ species' = <<>>
    /\ pc' = "species"
    /\ UNCHANGED <<modelVars, odes, reactions, reactions_bidirectional, observables,
                   net, engineCalls, reaction_cache, calls, ret, err, nw, pathVars>>

\* lines 295-297: a species line
ReadSpecies ==
    /\ pc = "species"
    /\ pos < Len(net)
    /\ NextLine.kind # "end species"
    /\ _parse_species(species, NextLine).err = ""
    /\ pos' = pos + 1
    /\ line' = NextLine
    /\ species' = _parse_species(species, NextLine).species
    /\ UNCHANGED <<modelVars, odes, reactions, reactions_bidirectional, observables,
                   net, engineCalls, pc, reaction_cache, calls, ret, err, nw, pathVars>>

\* line 297: _parse_species raises
SpeciesError ==
    /\ pc = "species"
    /\ pos < Len(net)
    /\ NextLine.kind # "end species"
    /\ _parse_species(species, NextLine).err # ""
    /\ line' = NextLine
    /\ species' = _parse_species(species, NextLine).species
    /\ Finish("raised", _parse_species(species, NextLine).err)
    /\ UNCHANGED <<modelVars, odes, reactions, reactions_bidirectional, observables,
                   net, engineCalls, calls, nw, pathVars>>

\* line 296
EndSpecies ==
    /\ pc = "species"
    /\ pos < Len(net)
    /\ NextLine.kind = "end species"
    /\ pos' = pos + 1
    /\ line' = NextLine
    /\ pc' = "seek reactions"
    /\ UNCHANGED <<modelVars, outVars, net, engineCalls, reaction_cache, calls, ret, err, nw, pathVars>>

\* lines 299-302
BeginReactions ==
    /\ pc = "seek reactions"
    /\ FirstAfter("begin reactions") # 0
    /\ pos' = FirstAfter("begin reactions")
    /\ line' = net[pos']
    /\ odes' = [i \in 1..Len(species) |-> Zero]
    /\ reaction_cache' = EmptyCache
    /\ pc' = "reactions"
    /\ UNCHANGED <<modelVars, species, reactions, reactions_bidirectional, observables,
                   net, engineCalls, calls, ret, err, nw, pathVars>>

ParsedReaction ==
    ParseReaction(rules, reactions, reactions_bidirectional, reaction_cache, odes, NextLine)

\* lines 304-341: a reaction line
ReadReaction ==
    /\ pc = "reactions"
    /\ pos < Len(net)
    /\ NextLine.kind # "end reactions"
    /\ ParsedReaction.err = ""
    /\ pos' = pos + 1
    /\ line' = NextLine
    /\ reactions' = ParsedReaction.reactions
    /\ reactions_bidirectional' = ParsedReaction.bd
    /\ reaction_cache' = ParsedReaction.cache
    /\ odes' = ParsedReaction.odes
    /\ UNCHANGED <<modelVars, species, observables, net, engineCalls, pc, calls, ret, err, nw, pathVars>>

\* lines 306-341: the line raises (a rule the model does not have, an index
\* model.odes does not have, a line that is no reaction line)
ReactionError ==
    /\ pc = "reactions"
    /\ pos < Len(net)
    /\ NextLine.kind # "end reactions"
    /\ ParsedReaction.err # ""
    /\ line' = NextLine
    /\ reactions' = ParsedReaction.reactions
    /\ reactions_bidirectional' = ParsedReaction.bd
    /\ odes' = ParsedReaction.odes
    /\ Finish("raised", ParsedReaction.err)
    /\ UNCHANGED <<modelVars, species, observables, net, engineCalls, calls, nw, pathVars>>

\* lines 305 and 343-348: the end of the section and the fix-up loop
EndReactions ==
    /\ pc = "reactions"
    /\ pos < Len(net)
    /\ NextLine.kind = "end reactions"
    /\ line' = NextLine
    /\ reactions_bidirectional' = FixUp(reactions_bidirectional)
    /\ IF FixUpStop(reactions_bidirectional) > Len(reactions_bidirectional)
       THEN /\ pos' = pos + 1
            /\ pc' = "seek groups"
            /\ UNCHANGED <<reaction_cache, ret, err>>
       ELSE Finish("raised", "KeyError")
    /\ UNCHANGED <<modelVars, species, odes, reactions, observables,
                   net, engineCalls, calls, nw, pathVars>>

\* lines 350-351
BeginGroups ==
    /\ pc = "seek groups"
    /\ FirstAfter("begin groups") # 0
    /\ pos' = FirstAfter("begin groups")
    /\ line' = net[pos']
    /\ pc' = "groups"
    /\ UNCHANGED <<modelVars, outVars, net, engineCalls, reaction_cache, calls, ret, err, nw, pathVars>>

\* lines 353-355: a group line
ReadGroup ==
    /\ pc = "groups"
    /\ pos < Len(net)
    /\ NextLine.kind # "end groups"
    /\ _parse_group(observables, NextLine).err = ""
    /\ pos' = pos + 1
    /\ line' = NextLine
    /\ observables' = _parse_group(observables, NextLine).observables
    /\ UNCHANGED <<modelVars, species, odes, reactions, reactions_bidirectional,
                   net, engineCalls, pc, reaction_cache, calls, ret, err, nw, pathVars>>

\* line 355: _parse_group raises
GroupError ==
    /\ pc = "groups"
    /\ pos < Len(net)
    /\ NextLine.kind # "end groups"
    /\ _parse_group(observables, NextLine).err # ""
    /\ line' = NextLine
    /\ observables' = _parse_group(observables, NextLine).observables
    /\ Finish("raised", _parse_group(observables, NextLine).err)
    /\ UNCHANGED <<modelVars, species, odes, reactions, reactions_bidirectional,
                   net, engineCalls, calls, nw, pathVars>>

\* line 354: the function returns
EndGroups ==
    /\ pc = "groups"
    /\ pos < Len(net)
    /\ NextLine.kind = "end groups"
    /\ line' = NextLine
    /\ Finish("returned", "")
    /\ UNCHANGED <<modelVars, outVars, net, engineCalls, calls, nw, pathVars>>

\* lines 357-358: lines.next() raises StopIteration, in a section or on the
\* way to one, and the function returns
EndOfInput ==
    /\ \/ pc \in {"species", "reactions", "groups"} /\ pos >= Len(net)
       \/ pc = "seek species" /\ FirstAfter("begin species") = 0
       \/ pc = "seek reactions" /\ FirstAfter("begin reactions") = 0
       \/ pc = "seek groups" /\ FirstAfter("begin groups") = 0
    /\ line' = StopIteration
    /\ Finish("returned", "")
    /\ UNCHANGED <<modelVars, outVars, net, engineCalls, calls, nw, pathVars>>

Next ==
    \/ CallNoop \/ CallRejected \/ CallEngineError \/ CallStart
    \/ BeginSpecies \/ ReadSpecies \/ SpeciesError \/ EndSpecies
    \/ BeginReactions \/ ReadReaction \/ ReactionError \/ EndReactions
    \/ BeginGroups \/ ReadGroup \/ GroupError \/ EndGroups
    \/ EndOfInput

Spec == Init /\ [][Next]_vars

----------------------------------------------------------------------------
(* generate_network and run_ssa: the temporary files and the engine process *)

\* a faulty variant: run_ssa forgets the .cdat file
TempFiles_WithoutCdat(fn) ==
    IF fn = "run_ssa" THEN {"bngl", "gdat", "net"} ELSE {"bngl", "net"}

\* a file is <<directory, name>>; the names stand for <model>_<pid>_<random>_temp
\* with the four extensions.  The lists of the two finally clauses:
TempFiles(fn) ==
    IF fn = "run_ssa" THEN {"bngl", "gdat", "cdat", "net"} ELSE {"bngl", "net"}

\* what the engine may write for the actions block of the function
EngineFiles(fn) ==
    IF fn = "run_ssa" THEN {"net", "gdat", "cdat"} ELSE {"net"}

\* the file the function reads after the engine has run
ResultFile(fn) == IF fn = "run_ssa" THEN "gdat" ELSE "net"

\* the step that follows the call: run_ssa makes no check of the model
FirstStep(fn) == IF fn = "run_ssa" THEN "chdir" ELSE "check"

InitNet ==
    /\ rules \in {{}, RuleNames}
    /\ initial_conditions \in {0, 1}
    /\ returncode \in {0, 1}
    /\ net = <<>>
    /\ species = <<>>
    /\ odes = <<>>
    /\ reactions = <<>>
    /\ reactions_bidirectional = <<>>
    /\ observables = [n \in ObservableNames |-> NoObservable]
    /\ engineCalls = 0
    /\ pc = "idle"
    /\ pos = 0
    /\ line = StopIteration
    /\ reaction_cache = EmptyCache
    /\ calls = 0
    /\ ret = "none"
    /\ err = ""
    /\ nw = NwIdle
    /\ _bng_path = None
    /\ os = NoEngine
    /\ pathCall = PathIdle

NwUnchanged == UNCHANGED <<modelVars, outVars, eqVars, pathVars>>

\* the step raises e inside the try block
NwRaise(e) == nw' = [nw EXCEPT !.pc = "finally", !.err = e]

\* a call of generate_network(model, cleanup) or run_ssa(model, cleanup=...)
NwCall ==
    /\ nw.pc = "idle"
    /\ \E fn \in {"generate_network", "run_ssa"}, cleanup \in BOOLEAN :
          nw' = [nw EXCEPT !.fn = fn, !.cleanup = cleanup, !.pc = FirstStep(fn)]
    /\ NwUnchanged

\* lines 232-235: the checks of generate_network raise outside the try block
NwCheckFails ==
    /\ nw.pc = "check"
    /\ Precondition(initial_conditions, rules) # ""
    /\ nw' = [nw EXCEPT !.pc = "done", !.err = Precondition(initial_conditions, rules)]
    /\ NwUnchanged

NwCheckPasses ==
    /\ nw.pc = "check"
    /\ Precondition(initial_conditions, rules) = ""
    /\ nw' = [nw EXCEPT !.pc = "open"]
    /\ NwUnchanged

\* lines 179-180 of run_ssa: os.chdir(output_dir)
NwChdir ==
    /\ nw.pc = "chdir"
    /\ \/ nw' = [nw EXCEPT !.cwd = "output_dir", !.pc = "open"]
       \/ NwRaise("OSError")
    /\ NwUnchanged

\* lines 181 and 240: open(bng_filename, 'w') creates the file or raises
NwOpen ==
    /\ nw.pc = "open"
    /\ \/ nw' = [nw EXCEPT !.files = @ \cup {<<nw.cwd, "bngl">>},
                           !.created = @ \cup {<<nw.cwd, "bngl">>},
                           !.pc = "write"]
       \/ NwRaise("IOError")
    /\ NwUnchanged

\* lines 182-184 and 241-243: the content is written
NwWrite ==
    /\ nw.pc = "write"
    /\ \/ nw' = [nw EXCEPT !.pc = "popen"]
       \/ NwRaise("IOError")
    /\ NwUnchanged

\* lines 185 and 244: _get_bng_path() and subprocess.Popen
NwPopen ==
    /\ nw.pc = "popen"
    /\ \/ nw' = [nw EXCEPT !.started = @ + 1, !.pc = "communicate"]
       \/ NwRaise("Exception")       \* no BNG2.pl found
       \/ NwRaise("OSError")         \* no perl
    /\ NwUnchanged

\* lines 190-192 and 249-251: the engine runs, writes some of its files and exits
NwCommunicate ==
    /\ nw.pc = "communicate"
    /\ \E written \in SUBSET EngineFiles(nw.fn) :
          LET on_disk == {<<nw.cwd, f>> : f \in written}
          IN  nw' = [nw EXCEPT !.files = @ \cup on_disk,
                               !.created = @ \cup on_disk,
                               !.pc = IF returncode # 0 THEN "finally" ELSE "read",
                               !.err = IF returncode # 0 THEN "GenerateNetworkError" ELSE ""]
    /\ NwUnchanged

\* lines 194 and 257-262: the result file is read
NwRead ==
    /\ nw.pc = "read"
    /\ \/ /\ <<nw.cwd, ResultFile(nw.fn)>> \in nw.files
          /\ nw' = [nw EXCEPT !.pc = "finally"]
       \/ /\ <<nw.cwd, ResultFile(nw.fn)>> \notin nw.files
          /\ NwRaise(IF nw.fn = "run_ssa" THEN "Exception" ELSE "IOError")
       \/ /\ nw.fn = "run_ssa"          \* _parse_bng_outfile: a file numpy cannot load
          /\ NwRaise("Exception")
    /\ NwUnchanged

\* lines 202-206 and 264-267: the files the finally clause leaves on disk
Cleanup(files, cwd, fn, cleanup) ==
    IF cleanup THEN files \ {<<cwd, f>> : f \in TempFiles(fn)} ELSE files

\* lines 201-208 and 263-268: the finally clause, then the return or the raise
NwFinally ==
    /\ nw.pc = "finally"
    /\ nw' = [nw EXCEPT !.files = Cleanup(nw.files, nw.cwd, nw.fn, nw.cleanup),
                        !.cwd = "working_dir",       \* line 207; a no-op in generate_network
                        !.pc = "done"]
    /\ NwUnchanged

NextNet ==
    \/ NwCall \/ NwCheckFails \/ NwCheckPasses \/ NwChdir \/ NwOpen \/ NwWrite
    \/ NwPopen \/ NwCommunicate \/ NwRead \/ NwFinally

SpecNet == InitNet /\ [][NextNet]_vars

----------------------------------------------------------------------------
(* set_bng_path, _get_bng_path *)

InitPath ==
    /\ rules = {}
    /\ initial_conditions = 0
    /\ returncode = 0
    /\ net = <<>>
    /\ species = <<>>
    /\ odes = <<>>
    /\ reactions = <<>>
    /\ reactions_bidirectional = <<>>
    /\ observables = [n \in ObservableNames |-> NoObservable]
    /\ engineCalls = 0
    /\ pc = "idle"
    /\ pos = 0
    /\ line = StopIteration
    /\ reaction_cache = EmptyCache
    /\ calls = 0
    /\ ret = "none"
    /\ err = ""
    /\ nw = NwIdle
    /\ _bng_path = None
    /\ os \in [environ : Environments, files : FileSystems]
    /\ pathCall = PathIdle

PathUnchanged == UNCHANGED <<modelVars, outVars, eqVars, nw>>

\* a call set_bng_path(dir)
SetBngPath ==
    /\ pathCall.calls < MaxPathCalls
    /\ \E dir \in Dirs :
         LET r == set_bng_path(os.files, dir)
         IN  /\ _bng_path' = r._bng_path
             /\ pathCall' = [pathCall EXCEPT !.calls = @ + 1, !.op = "set_bng_path",
                                             !.dir = dir, !.ret = None,
                                             !.err = r.err, !.consulted = FALSE]
    /\ UNCHANGED os
    /\ PathUnchanged

\* a call _get_bng_path()
GetBngPath ==
    /\ pathCall.calls < MaxPathCalls
    /\ LET r == _get_bng_path(_bng_path, os)
       IN  /\ _bng_path' = r._bng_path
           /\ pathCall' = [pathCall EXCEPT !.calls = @ + 1, !.op = "_get_bng_path",
                                           !.dir = "", !.ret = r.ret,
                                           !.err = r.err, !.consulted = r.consulted,
                                           !.resolved = IF r.consulted /\ r.err = ""
                                                        THEN @ + 1 ELSE @]
    /\ UNCHANGED os
    /\ PathUnchanged

\* the process changes or removes the environment variable between two calls
Putenv ==
    /\ \E e \in Environments \ {os.environ} : os' = [os EXCEPT !.environ = e]
    /\ UNCHANGED <<_bng_path, pathCall>>
    /\ PathUnchanged

NextPath ==
    \/ SetBngPath
    \/ GetBngPath
    \/ Putenv

SpecPath == InitPath /\ [][NextPath]_vars

----------------------------------------------------------------------------
(* Properties *)

\* the reaction lines of an engine output, in order
ReactionLinesOf(n) == SelectSeq(n, LAMBDA l : l.kind = "reaction")

HasLine(n, text) == \E k \in DOMAIN n : n[k].kind = text

\* the rate expression generate_equations builds for a reaction line
RateOf(l) == PolyOf(Monomial(ZeroBased(l.reactants), l.rate))

\* the first generation on the model has returned
FirstGenerationReturned == pc = "idle" /\ ret = "returned" /\ engineCalls = 1

\* C1: a generate_equations call made after a call has returned does not run
\* the engine again and leaves species, odes, reactions and
\* reactions_bidirectional as they are.
C1_SecondCallIsNoop ==
    [][(pc = "idle" /\ ret = "returned" /\ calls' = calls + 1)
         => /\ engineCalls' = engineCalls
            /\ UNCHANGED <<species, odes, reactions, reactions_bidirectional>>]_vars

Count(seq, x) == Cardinality({j \in DOMAIN seq : seq[j] = x})

Scale(p, n) == [m \in (IF n = 0 THEN {} ELSE DOMAIN p) |-> n * p[m]]

\* the sum over the raw reactions of +rate for each product index equal to i
\* and -rate for each reactant index equal to i
RECURSIVE Flux(_, _)
Flux(rx, i) ==
    IF rx = <<>> THEN Zero
    ELSE LET r == rx[Len(rx)]
         IN  PolyAdd(Flux(SubSeq(rx, 1, Len(rx) - 1), i),
                     Scale(r.rate, Count(r.products, i) - Count(r.reactants, i)))

\* C2: once reaction lines have been consumed, model.odes[i] is the sum over
\* the raw reactions of +rate per product index i and -rate per reactant index i.
C2_OdesAreTheFluxSum ==
    (pc \in {"reactions", "seek groups", "groups"} \/ FirstGenerationReturned)
        => \A i \in 0..(Len(odes) - 1) : odes[i + 1] = Flux(reactions, i)

\* the reactions section is complete and holds exactly the forward and the
\* '(reverse)' line of one rule over the same index tuples
ForwardReversePair(n) ==
    /\ HasLine(n, "end reactions")
    /\ Len(ReactionLinesOf(n)) = 2
    /\ LET a == ReactionLinesOf(n)[1]
           b == ReactionLinesOf(n)[2]
       IN  /\ rule_name(a.tag) = rule_name(b.tag)
           /\ is_reverse(a.tag) # is_reverse(b.tag)
           /\ a.reactants = b.products
           /\ a.products = b.reactants

ForwardLine(n) ==
    LET a == ReactionLinesOf(n)[1]
        b == ReactionLinesOf(n)[2]
    IN  IF is_reverse(a.tag) THEN b ELSE a

ReverseLine(n) ==
    LET a == ReactionLinesOf(n)[1]
        b == ReactionLinesOf(n)[2]
    IN  IF is_reverse(a.tag) THEN a ELSE b

\* C3: a forward line and the '(reverse)' line of one rule over the same index
\* tuples, in either order, leave two raw reactions and one bidirectional
\* record: reversible, oriented as the forward line, rate forward - reverse.
C3_PairMergedIntoOneRecord ==
    (FirstGenerationReturned /\ ForwardReversePair(net))
        => /\ Len(reactions) = 2
           /\ Len(reactions_bidirectional) = 1
           /\ reactions_bidirectional[1].reversible
           /\ reactions_bidirectional[1].reactants = ZeroBased(ForwardLine(net).reactants)
           /\ reactions_bidirectional[1].products = ZeroBased(ForwardLine(net).products)
           /\ reactions_bidirectional[1].rate =
                  PolySub(RateOf(ForwardLine(net)), RateOf(ReverseLine(net)))

\* the pair was merged with the '(reverse)' line seen first and distinct rates
C3_Witness ==
    /\ FirstGenerationReturned /\ ForwardReversePair(net)
    /\ is_reverse(ReactionLinesOf(net)[1].tag)
    /\ ForwardLine(net).reactants # ForwardLine(net).products
    /\ Len(reactions_bidirectional) = 1
    /\ reactions_bidirectional[1].reversible

\* the output ends inside the reactions section
EndsInReactions(n) == HasLine(n, "begin reactions") /\ ~HasLine(n, "end reactions")

\* C4: an output that ends after 'begin reactions' without 'end reactions'
\* makes the call raise; it never returns normally.
C4_TruncatedReactionsRaise ==
    (pc = "idle" /\ engineCalls >= 1 /\ EndsInReactions(net)) => ret = "raised"

\* C5: generate_network on a model without initial conditions or without
\* rules raises NoInitialConditionsError / NoRulesError, and has then written
\* no file and started no engine process.
C5_RejectedBeforeAnyFileOrProcess ==
    (nw.pc = "done" /\ nw.fn = "generate_network" /\ (initial_conditions = 0 \/ rules = {}))
        => /\ nw.err \in {"NoInitialConditionsError", "NoRulesError"}
           /\ nw.created = {}
           /\ nw.started = 0

C5_Witness ==
    /\ nw.pc = "done" /\ nw.fn = "generate_network"
    /\ initial_conditions = 1 /\ rules = {}
    /\ nw.err = "NoRulesError"

C7_SpeciesStoredAtWireIndex ==
    (pc = "species" /\ line.kind = "species")
        => /\ Len(species) = line.index
           /\ species[line.index] = line.pattern

\* the pair a term of a group line stands for
TermCoefficient(term) == IF Len(term) = 1 THEN 1 ELSE term[1]
TermSpecies(term) == term[Len(term)] - 1

TermsOf(l) == IF Len(l.values) = 3 THEN l.values[3] ELSE <<>>

\* C8: a group line appends to its observable one (coefficient, species) pair
\* per term, in order: the coefficient as written or 1, the species index
\* minus 1; the two lists have equal length at all times; a line without a
\* term list appends nothing and raises nothing.
C8_GroupLineAppendsPairs ==
    /\ [](\A n \in ObservableNames :
             Len(observables[n].coefficients) = Len(observables[n].species))
    /\ [][(pc = "groups" /\ pos < Len(net) /\ NextLine.kind = "group"
             /\ NextLine.values[2] \in ObservableNames)
            => LET name == NextLine.values[2]
                   terms == TermsOf(NextLine)
                   old == observables[name]
                   new == observables'[name]
                   base == Len(old.coefficients)
               IN  /\ pc' = "groups"
                   /\ \A n \in ObservableNames \ {name} : observables'[n] = observables[n]
                   /\ Len(new.coefficients) = base + Len(terms)
                   /\ Len(new.species) = Len(old.species) + Len(terms)
                   /\ SubSeq(new.coefficients, 1, base) = old.coefficients
                   /\ SubSeq(new.species, 1, Len(old.species)) = old.species
                   /\ \A j \in DOMAIN terms :
                         /\ new.coefficients[base + j] = TermCoefficient(terms[j])
                         /\ new.species[Len(old.species) + j] = TermSpecies(terms[j])]_vars

\* the line "3 Obs1 2*1,4" has been parsed after a line without terms
C8_Witness ==
    /\ pc = "groups"
    /\ pos >= 2 /\ net[pos - 1] = GroupLine(<<"1", "Obs1">>)
    /\ line = GroupLine(<<"3", "Obs1", <<<<2, 1>>, <<4>>>>>>)
    /\ observables["Obs1"] = [coefficients |-> <<2, 1>>, species |-> <<0, 3>>]

\* C9: a reaction line tagged with a rule the model does not have makes the
\* call raise, and adds nothing to reactions, reactions_bidirectional or odes.
C9_UnknownRuleRaises ==
    [][(pc = "reactions" /\ pos < Len(net) /\ NextLine.kind = "reaction"
          /\ rule_name(NextLine.tag) \notin rules)
         => /\ pc' = "idle" /\ ret' = "raised" /\ err' = "KeyError"
            /\ UNCHANGED <<reactions, reactions_bidirectional, odes>>]_vars

\* the call raised at such a line after it had taken in an earlier line
C9_Witness ==
    /\ pc = "idle" /\ ret = "raised" /\ err = "KeyError"
    /\ line.kind = "reaction" /\ rule_name(line.tag) \notin rules
    /\ Len(reactions) = 1

\* the forward and the '(reverse)' line of one rule over the same unordered
\* index sets: the lists may differ in order
UnorderedPair(n) ==
    /\ HasLine(n, "end reactions")
    /\ Len(ReactionLinesOf(n)) = 2
    /\ LET a == ReactionLinesOf(n)[1]
           b == ReactionLinesOf(n)[2]
       IN  /\ rule_name(a.tag) = rule_name(b.tag)
           /\ is_reverse(a.tag) # is_reverse(b.tag)
           /\ BagOf(a.reactants) = BagOf(b.products)
           /\ BagOf(a.products) = BagOf(b.reactants)

\* C10: such a pair is merged into one bidirectional record whatever the
\* order in which the two lines list the indices.
C10_MergedWhateverTheOrder ==
    (FirstGenerationReturned /\ UnorderedPair(net))
        => /\ Len(reactions_bidirectional) = 1
           /\ reactions_bidirectional[1].reversible

\* C11: a call that ended with an exception leaves model.odes empty, so that
\* the next call runs generation again instead of returning at once.
C11_FailedCallLeavesOdesEmpty ==
    (pc = "idle" /\ ret = "raised") => odes = <<>>

\* C12: the engine path is resolved at most once per process: once the
\* global holds a path it is never cleared, a _get_bng_path call then returns
\* it without consulting the environment or the standard directories, and a
\* set_bng_path call that returns makes its own path the one returned,
\* whatever the environment and the standard directories hold.
C12_PathResolvedAtMostOnce ==
    /\ [](pathCall.resolved <= 1)
    /\ [][_bng_path # None => _bng_path' # None]_vars
    /\ [][(pathCall'.calls = pathCall.calls + 1 /\ pathCall'.op = "_get_bng_path")
            => /\ pathCall'.err = "" => _bng_path' = pathCall'.ret /\ _bng_path' # None
               /\ _bng_path # None
                    => /\ pathCall'.ret = _bng_path /\ pathCall'.err = ""
                       /\ ~pathCall'.consulted
                       /\ UNCHANGED _bng_path]_vars
    /\ [][(pathCall'.calls = pathCall.calls + 1 /\ pathCall'.op = "set_bng_path"
             /\ pathCall'.err = "")
            => _bng_path' = ScriptPath(pathCall'.dir, "")]_vars

\* the environment's directory holds the script and was resolved by a first
\* call; after an override with the user's directory a later call returned
\* the override without consulting the environment
C12_Witness ==
    /\ pathCall.op = "_get_bng_path" /\ pathCall.err = ""
    /\ pathCall.resolved = 1 /\ ~pathCall.consulted
    /\ path_var \in DOMAIN os.environ /\ os.environ[path_var] = dist_dirs[1]
    /\ os.files[ScriptPath(dist_dirs[1], "")] = "executable"
    /\ pathCall.ret = ScriptPath(UserDir, "")
    /\ os.files[ScriptPath(UserDir, "")] = "executable"

\* the indices a reaction record stores
IndicesOf(r) == Range(r.reactants) \cup Range(r.products)

\* C13: after a call has returned, every reactant and product index stored in
\* reactions and reactions_bidirectional is a position of model.species
\* (0..len-1), and a reaction line changes only the odes entries of the
\* species it names (wire index k names the k-th species).
C13_IndicesNameSpecies ==
    /\ []((pc = "idle" /\ ret = "returned")
            => \A r \in Range(reactions) \cup Range(reactions_bidirectional) :
                  IndicesOf(r) \subseteq 0..(Len(species) - 1))
    /\ [][(pc = "reactions" /\ pos' = pos + 1 /\ NextLine.kind = "reaction")
            => \A k \in DOMAIN odes :
                  k \notin IndicesOf(NextLine) => odes'[k] = odes[k]]_vars

\* C14: a set_bng_path call that raises leaves the cached engine path as it
\* was before the call.
C14_RejectedOverrideLeavesPath ==
    [][(pathCall'.calls = pathCall.calls + 1 /\ pathCall'.op = "set_bng_path"
          /\ pathCall'.err # "")
         => UNCHANGED _bng_path]_vars

\* C15: a reaction line is merged into an existing bidirectional record
\* (the record becomes reversible and has the line's rate subtracted) only
\* when the record came from one line of the same rule with the other
\* direction flag and has absorbed no other line yet.
C15_MergedOnlyWithOppositeDirection ==
    [][(pc = "reactions" /\ Len(reactions') = Len(reactions) + 1)
         => \A i \in DOMAIN reactions_bidirectional :
               reactions_bidirectional'[i] # reactions_bidirectional[i]
                 => /\ reactions_bidirectional[i].rule = rule_name(NextLine.tag)
                    /\ reactions_bidirectional[i].reverse # is_reverse(NextLine.tag)
                    /\ ~reactions_bidirectional[i].reversible]_vars

====
